---------------------------- MODULE Spec2Model ----------------------------
(***************************************************************************)
(* Model of thermal-heatmap-generator:                                     *)
(*   bezier.py                    get_random_points, ccw_sort,             *)
(*                                get_bezier_curve, get_curve, Segment,    *)
(*                                bezier                                   *)
(*   thermal_heatmap_generator.py generate_heat_source, add_random_edges,  *)
(*                                generate_thermal_heatmap                 *)
(*                                                                         *)
(* Number representation.  The program computes in IEEE doubles; the model *)
(* computes in exact integers and fixed point:                             *)
(*   - a draw of np.random.rand is a grid value k/GridRes, k in            *)
(*     0..GridRes-1 (rand is in [0,1));                                    *)
(*   - rationals (scale, mindst) are pairs <<num, den>>;                   *)
(*   - curve coordinates are integers in units of 1/(GridRes*FIX) pixel;   *)
(*   - angles are integers in units of pi/AngPi, arctan2 truncated to a    *)
(*     multiple of pi/4;                                                   *)
(*   - buffer intensities are integers, a normalised buffer is in units of *)
(*     1/ONE.                                                              *)
(***************************************************************************)
EXTENDS Integers, Sequences, FiniteSets, TLC

VARIABLES
    \* ---- get_random_points (bezier.py 140-161)
    spc,        \* "call": a frame of get_random_points is about to run; "done": returned
    n,          \* parameter n
    scale,      \* parameter scale, <<num, den>>
    mindst,     \* parameter mindst: None, or <<num, den>>
    rec,        \* parameter rec of the frame that runs next / that returned
    draws,      \* number of np.random.rand draws made so far by the call
    a,          \* the draw of the frame that returned (grid indices), <<>> before
    srt,        \* ccw_sort(a) as computed by that frame
    ret,        \* the returned array a * scale: numerators over GridRes * scale[2]
    \* ---- get_bezier_curve (bezier.py 109-137)
    cpc,        \* "idle" | "call" | "done"
    pts,        \* argument a: sequence of <<x, y>>
    edgy,       \* argument edgy
    aug,        \* returned a: rows <<x, y, ang>>
    nseg,       \* number of Segment objects built by get_curve
    curve,      \* concatenated samples c: sequence of <<x, y>>
    \* ---- generate_heat_source (thermal_heatmap_generator.py 6-32)
    hpc,        \* "idle" | "call" | "done"
    harg,       \* arguments [x, y, intensity, size, sigma] of the last call
    hin,        \* the heatmap argument as it was at the call
    heat_source,\* the freshly stamped buffer before the blur
    hret,       \* the returned (blurred) buffer
    \* ---- generate_thermal_heatmap (thermal_heatmap_generator.py 67-117)
    pc,         \* "idle" | "call" | "sources" | "edges" | "normalize" | "returned" | "raised"
    cfg,        \* [width, height, num_sources, num_edges, edge_sigma, source_sigma]
    heatmap,    \* the accumulating source buffer (<<>> while not allocated)
    edges_map,  \* add_random_edges' buffer
    left,       \* loop iterations still to run in the current loop
    log,        \* what the call did so far: [alloc, rand, sampler, err]
    out         \* the returned uint8 array, or <<>>

svars == <<spc, n, scale, mindst, rec, draws, a, srt, ret>>
cvars == <<cpc, pts, edgy, aug, nseg, curve>>
hvars == <<hpc, harg, hin, heat_source, hret>>
gvars == <<pc, cfg, heatmap, edges_map, left, log, out>>
vars == <<svars, cvars, hvars, gvars>>

-----------------------------------------------------------------------------
(* Bounds of the model *)

\* resolution of the unit square: np.random.rand yields k/GridRes
GridRes == 2

\* fixed-point steps per grid unit of a curve coordinate
FIX == 16

\* canvas of the direct calls of generate_heat_source: StampH rows, StampW columns
StampH == 7

StampW == 6

\* largest size argument of the direct calls of generate_heat_source
MaxSize == 4

\* fixed-point steps per unit of intensity
ONE == 1024

\* largest width and height of a generate_thermal_heatmap call
MaxDim == 22

-----------------------------------------------------------------------------
(* Small helpers *)

None == <<>>

Abs(i) == IF i < 0 THEN -i ELSE i

\* int(x) for the rational x = num/den, den > 0: truncation toward zero
Trunc(num, den) == IF num >= 0 THEN num \div den ELSE -((-num) \div den)

\* np.sum((p - q) ** 2)
SqDist(p, q) == (p[1] - q[1]) * (p[1] - q[1]) + (p[2] - q[2]) * (p[2] - q[2])

\* sum of one coordinate of a point sequence
RECURSIVE SumCoord(_, _, _)
SumCoord(p, c, i) == IF i = 0 THEN 0 ELSE p[i][c] + SumCoord(p, c, i - 1)

-----------------------------------------------------------------------------
(* ccw_sort, bezier.py 94-106 *)

\* The interval of (-pi, pi] that np.arctan2(y, x) falls in:
\* 0: (-pi, 0)   1: {0}   2: (0, pi)   3: {pi}.   arctan2(0, 0) = 0.
Atan2Half(y, x) ==
    IF y < 0 THEN 0
    ELSE IF y > 0 THEN 2
    ELSE IF x >= 0 THEN 1 ELSE 3

\* np.arctan2(y1, x1) < np.arctan2(y2, x2), exact on integer vectors
Atan2Less(y1, x1, y2, x2) ==
    LET h1 == Atan2Half(y1, x1)
        h2 == Atan2Half(y2, x2)
    IN  \/ h1 < h2
        \/ /\ h1 = h2
           /\ h1 \in {0, 2}
           /\ x1 * y2 - y1 * x2 > 0

\* d = p - np.mean(p, axis=0), multiplied by len(p) to stay in integers
Centred(p) ==
    LET len == Len(p)
    IN  [i \in 1..len |-> <<len * p[i][1] - SumCoord(p, 1, len),
                            len * p[i][2] - SumCoord(p, 2, len)>>]

\* s = np.arctan2(d[:, 0], d[:, 1]); np.argsort(s): every index order that is
\* ascending in s.  Equal angles may come out in either order (argsort's default
\* kind is not stable).
ArgSorts(p) ==
    LET len == Len(p)
        d == Centred(p)
    IN  { f \in [1..len -> 1..len] :
            /\ \A i, j \in 1..len : i # j => f[i] # f[j]
            /\ \A i \in 1..(len - 1) :
                 ~ Atan2Less(d[f[i + 1]][1], d[f[i + 1]][2], d[f[i]][1], d[f[i]][2]) }

\* p[np.argsort(s), :]
CcwSorts(p) == { [i \in 1..Len(p) |-> p[f[i]]] : f \in ArgSorts(p) }

-----------------------------------------------------------------------------
(* get_random_points, bezier.py 140-161 *)

\* the recursion ceiling in `rec >= 200`
MaxRec == 200

\* a = np.random.rand(n, 2): every n-sequence of grid points
Draws(len) == [1..len -> (0..(GridRes - 1)) \X (0..(GridRes - 1))]

\* mindst = mindst or 0.7 / n   (None and 0 are both falsy)
ResolveMinDst(m, len) == IF m = None \/ m[1] = 0 THEN <<7, 10 * len>> ELSE m

\* np.all(d >= mindst) for d = np.sqrt(np.sum(np.diff(s, axis=0) ** 2, axis=1)),
\* the points of s being numerators over den; m = <<num, den>> is mindst.
AllFar(s, den, m) ==
    \A i \in 1..(Len(s) - 1) :
        \/ m[1] <= 0
        \/ SqDist(s[i + 1], s[i]) * m[2] * m[2] >= m[1] * m[1] * den * den

\* line 158 with np.any in place of np.all
Accepts_Any(s, m, r) ==
    \/ \E i \in 1..(Len(s) - 1) : AllFar(<<s[i], s[i + 1]>>, GridRes, m)
    \/ r >= MaxRec

\* line 158 without the test of rec
Accepts_NoBudget(s, m, r) == AllFar(s, GridRes, m)

\* the test of line 158
Accepts(s, m, r) == AllFar(s, GridRes, m) \/ r >= MaxRec

\* a * scale: numerators over GridRes * scale[2]
ScalePoints(p, sc) == [i \in 1..Len(p) |-> <<p[i][1] * sc[1], p[i][2] * sc[1]>>]

\* One frame of get_random_points: resolve mindst, draw, sort, test, then
\* return a * scale or recurse with rec + 1.
GetRandomPoints ==
    /\ spc = "call"
    /\ LET m == ResolveMinDst(mindst, n)
       IN  \E a0 \in Draws(n) : \E s \in CcwSorts(a0) :
             /\ mindst' = m
             /\ draws' = draws + 1
             /\ IF Accepts(s, m, rec)
                THEN /\ spc' = "done"
                     /\ a' = a0
                     /\ srt' = s
                     /\ ret' = ScalePoints(a0, scale)
                     /\ rec' = rec
                ELSE /\ rec' = rec + 1
                     /\ UNCHANGED <<spc, a, srt, ret>>
    /\ UNCHANGED <<n, scale>>
    /\ UNCHANGED <<cvars, hvars, gvars>>

\* The set of arrays get_random_points(n, scale) can return: a draw is returned
\* by the frame at depth r when it passes the test of line 158 there.
GetRandomPointsResults(len, sc) ==
    { ScalePoints(a0, sc) :
        a0 \in { b \in Draws(len) :
                   \E r \in {0, MaxRec} : \E s \in CcwSorts(b) :
                       Accepts(s, ResolveMinDst(None, len), r) } }

-----------------------------------------------------------------------------
(* bezier, Segment, get_curve, get_bezier_curve: bezier.py 5-91, 109-137 *)

\* np.pi in angle units: angles are integers, one unit is pi/16
AngPi == 16

\* numpoints of a Segment: kw.get("numpoints", 100)
NumSamples == 100

\* rad of get_bezier_curve, 0.2, passed to every Segment as r
Rad == <<1, 5>>

\* floor of the square root, by bisection on lo..hi (lo * lo <= k < hi * hi)
RECURSIVE SqrtBetween(_, _, _)
SqrtBetween(k, lo, hi) ==
    IF hi - lo <= 1 THEN lo
    ELSE LET mid == (lo + hi) \div 2
         IN  IF mid * mid <= k THEN SqrtBetween(k, mid, hi)
                               ELSE SqrtBetween(k, lo, mid)

\* np.sqrt, truncated to the fixed-point grid (k < 46340 * 46340)
Sqrt(k) == SqrtBetween(k, 0, IF k < 46340 THEN k + 1 ELSE 46340)

\* 1000 * cos(k * pi / 16) for k = 0..8
CosQuarter == <<1000, 981, 924, 831, 707, 556, 383, 195, 0>>

\* 1000 * np.cos(ang)
Cos1000(ang) ==
    LET k == ang % (2 * AngPi)
    IN  IF k <= 8 THEN CosQuarter[k + 1]
        ELSE IF k <= 16 THEN - CosQuarter[16 - k + 1]
        ELSE IF k <= 24 THEN - CosQuarter[k - 16 + 1]
        ELSE CosQuarter[32 - k + 1]

\* 1000 * np.sin(ang)
Sin1000(ang) == Cos1000(ang - 8)

\* np.arctan2(y, x) in units of pi/4, truncated downwards: -4..4
Arctan2Oct(y, x) ==
    IF y = 0 THEN (IF x >= 0 THEN 0 ELSE 4)
    ELSE IF y > 0
    THEN IF x > 0 THEN (IF y < x THEN 0 ELSE 1)
         ELSE IF x = 0 THEN 2
         ELSE (IF y > -x THEN 2 ELSE 3)
    ELSE IF x > 0 THEN (IF -y <= x THEN -1 ELSE -2)
         ELSE IF x = 0 THEN -2
         ELSE (IF -y >= -x THEN -3 ELSE -4)

\* np.arctan2(y, x) in angle units
Arctan2(y, x) == (AngPi \div 4) * Arctan2Oct(y, x)

\* f = lambda ang: (ang >= 0) * ang + (ang < 0) * (ang + 2 * np.pi)
FoldAngle(ang) == IF ang >= 0 THEN ang ELSE ang + 2 * AngPi

\* p = np.arctan(edgy) / np.pi + 0.5 as a numerator over AngPi, for edgy in
\* {-1, 0, 1}, where arctan(edgy) = edgy * pi / 4
BlendWeight(e) == e * (AngPi \div 4) + AngPi \div 2

\* bernstein(3, i, t) at t = j / m, times m^3:  binom(3, i) * j^i * (m - j)^(3 - i)
Bernstein3(i, j, m) ==
    CASE i = 0 -> (m - j) * (m - j) * (m - j)
      [] i = 1 -> 3 * j * (m - j) * (m - j)
      [] i = 2 -> 3 * j * j * (m - j)
      [] i = 3 -> j * j * j

\* bezier(points, num): num samples at t = linspace(0, 1, num) of the weighted
\* sum of the four control points cp
Bezier(cp, num) ==
    LET m == num - 1
        At(j, c) == Trunc(  Bernstein3(0, j, m) * cp[1][c]
                          + Bernstein3(1, j, m) * cp[2][c]
                          + Bernstein3(2, j, m) * cp[3][c]
                          + Bernstein3(3, j, m) * cp[4][c], m * m * m)
    IN  [k \in 1..num |-> <<At(k - 1, 1), At(k - 1, 2)>>]

\* Segment.__init__ and calc_intermediate_points: the control points p[0..3]
SegmentPoints(p1, p2, angle1, angle2, r) ==
    LET d == Sqrt(SqDist(p2, p1))
        sr == (r[1] * d) \div r[2]
    IN  << p1,
           << p1[1] + Trunc(sr * Cos1000(angle1), 1000),
              p1[2] + Trunc(sr * Sin1000(angle1), 1000) >>,
           << p2[1] + Trunc(sr * Cos1000(angle2 + AngPi), 1000),
              p2[2] + Trunc(sr * Sin1000(angle2 + AngPi), 1000) >>,
           p2 >>

\* Segment(...).curve
SegmentCurve(p1, p2, angle1, angle2, r) ==
    Bezier(SegmentPoints(p1, p2, angle1, angle2, r), NumSamples)

\* np.concatenate of the curves of segments i..last
RECURSIVE ConcatCurves(_, _, _)
ConcatCurves(rows, r, i) ==
    IF i > Len(rows) - 1 THEN <<>>
    ELSE SegmentCurve(<<rows[i][1], rows[i][2]>>, <<rows[i + 1][1], rows[i + 1][2]>>,
                      rows[i][3], rows[i + 1][3], r)
         \o ConcatCurves(rows, r, i + 1)

\* get_curve(points, r=rad): one Segment per i in range(len(points) - 1)
GetCurve(rows, r) ==
    [nseg |-> Len(rows) - 1, curve |-> ConcatCurves(rows, r, 1)]

\* line 125 left out: the first point is not appended
CloseLoop_Open(s) == s

\* the rows of a after line 125: the sorted points, then the first one again
CloseLoop(s) == Append(s, s[1])

\* the angles after line 133: the blended ones, then the first one again
CloseAngles(ang) == Append(ang, ang[1])

\* get_bezier_curve from line 125 on, s being ccw_sort(a): the augmented rows
\* of a, and the result of get_curve
BezierCurveOf(s, r, e) ==
    LET a1 == CloseLoop(s)
        len == Len(a1) - 1
        d == [i \in 1..len |-> <<a1[i + 1][1] - a1[i][1], a1[i + 1][2] - a1[i][2]>>]
        ang1 == [i \in 1..len |-> FoldAngle(Arctan2(d[i][2], d[i][1]))]
        ang2 == [i \in 1..len |-> IF i = 1 THEN ang1[len] ELSE ang1[i - 1]]
        pw == BlendWeight(e)
        ang == [i \in 1..len |->
                   (pw * ang1[i] + (AngPi - pw) * ang2[i]) \div AngPi
                   + (IF Abs(ang2[i] - ang1[i]) > AngPi THEN AngPi ELSE 0)]
        angs == CloseAngles(ang)
        rows == [i \in 1..Len(a1) |->
                    <<a1[i][1], a1[i][2], IF i <= Len(angs) THEN angs[i] ELSE 0>>]
        sc == GetCurve(rows, r)
    IN  [a |-> rows, nseg |-> sc.nseg, curve |-> sc.curve]

\* get_bezier_curve(pts, edgy=edgy)
GetBezierCurve ==
    /\ cpc = "call"
    /\ \E s \in CcwSorts(pts) : \E res \in {BezierCurveOf(s, Rad, edgy)} :
         /\ aug' = res.a
         /\ nseg' = res.nseg
         /\ curve' = res.curve
    /\ cpc' = "done"
    /\ UNCHANGED <<pts, edgy>>
    /\ UNCHANGED <<svars, hvars, gvars>>

-----------------------------------------------------------------------------
(* Buffers and scipy.ndimage.gaussian_filter *)

\* np.zeros((h, w)): a buffer is [h, w, rows], rows[r + 1][c + 1] being [r, c]
Zeros(h, w) == [h |-> h, w |-> w, rows |-> [r \in 1..h |-> [c \in 1..w |-> 0]]]

\* np.zeros_like(buf)
ZerosLike(buf) == Zeros(buf.h, buf.w)

\* the largest of line[1..i], i >= 1
RECURSIVE LineMax(_, _)
LineMax(line, i) ==
    IF i = 1 THEN line[1]
    ELSE LET m == LineMax(line, i - 1)
         IN  IF line[i] > m THEN line[i] ELSE m

\* buf.max() of a buffer that is not empty
BufMax(buf) == LineMax([r \in 1..buf.h |-> LineMax(buf.rows[r], buf.w)], buf.h)

\* the Gaussian weights 64 * exp(-k * k / (2 * sigma * sigma)), k = 0..radius,
\* the radius being int(4.0 * sigma + 0.5)
GaussKernel(sigma) ==
    CASE sigma = 1 -> <<64, 39, 9, 1, 0>>
      [] sigma = 2 -> <<64, 56, 39, 21, 9, 3, 1, 0, 0>>

\* mode="reflect": the index that position i of a line of length len reads
\* (d c b a | a b c d | d c b a)
Reflect(i, len) ==
    LET j == i % (2 * len)
    IN  IF j < len THEN j ELSE 2 * len - 1 - j

\* sum over the taps k..rad of weight * line value, around 0-based position i
RECURSIVE TapSum(_, _, _, _, _)
TapSum(line, ker, i, k, rad) ==
    IF k > rad THEN 0
    ELSE ker[Abs(k) + 1] * line[Reflect(i + k, Len(line)) + 1]
         + TapSum(line, ker, i, k + 1, rad)

\* the sum of all the weights of a kernel
RECURSIVE KernelSum(_, _)
KernelSum(ker, k) ==
    IF k > Len(ker) THEN 0
    ELSE (IF k = 1 THEN ker[k] ELSE 2 * ker[k]) + KernelSum(ker, k + 1)

\* correlate1d of one line with the normalised kernel
Filter1D(line, ker) ==
    LET rad == Len(ker) - 1
        total == KernelSum(ker, 1)
    IN  [i \in 1..Len(line) |-> TapSum(line, ker, i - 1, -rad, rad) \div total]

Transpose(rows, h, w) == [c \in 1..w |-> [r \in 1..h |-> rows[r][c]]]

\* gaussian_filter(buf, sigma): the 1-D filter along axis 0, then along axis 1
GaussianFilter(buf, sigma) ==
    LET ker == GaussKernel(sigma)
        cols == Transpose(buf.rows, buf.h, buf.w)
        pass0 == Transpose([c \in 1..buf.w |-> Filter1D(cols[c], ker)], buf.w, buf.h)
    IN  [h |-> buf.h, w |-> buf.w,
         rows |-> [r \in 1..buf.h |-> Filter1D(pass0[r], ker)]]

\* a + b, element by element
AddBuf(p, q) ==
    [h |-> p.h, w |-> p.w,
     rows |-> [r \in 1..p.h |-> [c \in 1..p.w |-> p.rows[r][c] + q.rows[r][c]]]]

-----------------------------------------------------------------------------
(* generate_heat_source, thermal_heatmap_generator.py 6-32 *)

\* size of a heat source (default of generate_heat_source)
SourceSize == 5

\* the 0-based indices a Python slice start:stop selects from an axis of length len
PySlice(start, stop, len) ==
    LET norm(i) == IF i < 0 THEN (IF i + len < 0 THEN 0 ELSE i + len)
                   ELSE (IF i > len THEN len ELSE i)
    IN  norm(start)..(norm(stop) - 1)

\* the slice bounds without the + 1 of the stop
StampSpan_Open(c, size) == <<c - size \div 2, c + size \div 2>>

\* the slice bounds  c - size // 2 : c + size // 2 + 1  around the centre c
StampSpan(c, size) == <<c - size \div 2, c + size \div 2 + 1>>

\* lines 28-31: a zero buffer shaped like heatmap, the slice set to intensity
StampSource(hm, x, y, intensity, size) ==
    LET ys == StampSpan(y, size)
        xs == StampSpan(x, size)
        rs == PySlice(ys[1], ys[2], hm.h)
        cs == PySlice(xs[1], xs[2], hm.w)
        z == ZerosLike(hm)
    IN  [z EXCEPT !.rows =
            [r \in 1..hm.h |-> [c \in 1..hm.w |->
                IF (r - 1) \in rs /\ (c - 1) \in cs THEN intensity ELSE z.rows[r][c]]]]

\* generate_heat_source(hm, x, y, intensity, size, sigma): the stamped buffer st,
\* the returned blur g of it; hm itself is not written
HeatSourceCall(hm, x, y, intensity, size, sigma) ==
    \E st \in {StampSource(hm, x, y, intensity, size)} :
      \E g \in {GaussianFilter(st, sigma)} :
        /\ harg' = [x |-> x, y |-> y, intensity |-> intensity, size |-> size,
                    sigma |-> sigma]
        /\ hin' = hm
        /\ heat_source' = st
        /\ hret' = g
        /\ hpc' = "done"

\* a direct call generate_heat_source(hin, **harg)
GenerateHeatSource ==
    /\ hpc = "call"
    /\ HeatSourceCall(hin, harg.x, harg.y, harg.intensity, harg.size, harg.sigma)
    /\ UNCHANGED <<svars, cvars, gvars>>

-----------------------------------------------------------------------------
(* add_random_edges and generate_thermal_heatmap,
   thermal_heatmap_generator.py 35-64 and 67-117 *)

\* num_points of add_random_edges, the n of every sampler call of the program
NumPoints == 3

\* the margin of the source centres: randint(10, width - 10)
Margin == 10

\* intensity arguments: the ends of np.random.uniform(200, 255), in whole units
Intensities == {200, 254}

\* p in fixed point
ToFix(p) == [i \in 1..Len(p) |-> <<p[i][1] * FIX, p[i][2] * FIX>>]

\* edge_intensity=128
EdgeIntensity == 128

\* the top of the output range
MaxOut == 255

\* a whole number of intensity units in fixed point
Fixed(v) == v * ONE

\* range(k + 1)
LoopCount_PlusOne(k) == IF k + 1 > 0 THEN k + 1 ELSE 0

\* the number of iterations of `for _ in range(k)`
LoopCount(k) == IF k > 0 THEN k ELSE 0

\* the values np.random.randint(low, high) can return; empty when it raises
\* ValueError (low >= high)
RandInt(low, high) == low..(high - 1)

\* randint(0, len)
SourceCentres_NoMargin(len) == RandInt(0, len)

\* the centres randint(10, len - 10) draws along an axis of length len
SourceCentres(len) == RandInt(Margin, len - Margin)

\* heatmap.shape[1]
EdgeScale_Width(hm) == hm.w

\* the scale add_random_edges passes to get_random_points: heatmap.shape[0]
EdgeScale(hm) == hm.h

\* the point sets get_random_points returns to add_random_edges that the model
\* follows: those of the draws whose first point is (0, 0) and whose second is
\* the largest grid point of the x axis
EdgeSamples(hm) ==
    { rp \in GetRandomPointsResults(NumPoints, <<EdgeScale(hm), 1>>) :
        /\ rp[1] = <<0, 0>>
        /\ rp[2] = <<(GridRes - 1) * EdgeScale(hm), 0>> }

\* lines 59-62: every curve sample, truncated by int(), sets its pixel when it
\* is inside the buffer
Rasterize(buf, c, intensity) ==
    LET hits == { <<Trunc(c[i][2], GridRes * FIX), Trunc(c[i][1], GridRes * FIX)>> :
                    i \in 1..Len(c) }
    IN  [buf EXCEPT !.rows =
            [r \in 1..buf.h |-> [k \in 1..buf.w |->
                IF <<r - 1, k - 1>> \in hits THEN intensity ELSE buf.rows[r][k]]]]

\* buf / m in fixed point
DivBuf(buf, m) ==
    [buf EXCEPT !.rows =
        [r \in 1..buf.h |-> [c \in 1..buf.w |-> (buf.rows[r][c] * ONE) \div m]]]

\* lines 104-105 and 108-109: if buf.max() != 0: buf = buf / buf.max()
NormalizeBuf(buf) ==
    IF BufMax(buf) # 0 THEN DivBuf(buf, BufMax(buf)) ELSE buf

\* buf / m * 255
Stretch(buf, m) ==
    LET q == DivBuf(buf, m)
    IN  [q EXCEPT !.rows =
            [r \in 1..q.h |-> [c \in 1..q.w |-> q.rows[r][c] * MaxOut]]]

\* c = c / 2 * 255, 2 being the largest sum of two normalised values
Rescale_ByTwo(buf) == Stretch(buf, Fixed(2))

\* lines 115-116: if c.max() != 0: c = c / c.max() * 255
Rescale(buf) ==
    IF BufMax(buf) # 0 THEN Stretch(buf, BufMax(buf)) ELSE buf

\* line 117 without clip and astype
Quantize_NoCast(buf) == buf

\* line 117: np.clip(c, 0, 255).astype(np.uint8)
Quantize(buf) ==
    LET clip(v) == IF v < 0 THEN 0
                   ELSE IF v > Fixed(MaxOut) THEN Fixed(MaxOut) ELSE v
    IN  [buf EXCEPT !.rows =
            [r \in 1..buf.h |-> [c \in 1..buf.w |->
                (clip(buf.rows[r][c]) \div ONE) % (MaxOut + 1)]]]

Raise(what) ==
    /\ pc' = "raised"
    /\ log' = [log EXCEPT !.err = what]

\* line 89: heatmap = np.zeros((height, width)), which raises ValueError on a
\* negative dimension
Allocate ==
    /\ pc = "call"
    /\ IF cfg.height < 0 \/ cfg.width < 0
       THEN /\ Raise("np.zeros: negative dimensions")
            /\ UNCHANGED <<heatmap, left>>
       ELSE /\ heatmap' = Zeros(cfg.height, cfg.width)
            /\ left' = LoopCount(cfg.num_sources)
            /\ log' = [log EXCEPT !.alloc = @ + 1]
            /\ pc' = "sources"
    /\ UNCHANGED <<cfg, edges_map, out>>
    /\ UNCHANGED <<svars, cvars, hvars>>

\* lines 92-97: one iteration of the source loop
PlaceSource ==
    /\ pc = "sources"
    /\ left > 0
    /\ IF SourceCentres(cfg.width) = {}
       THEN /\ Raise("randint: low >= high")
            /\ UNCHANGED <<heatmap, left, hvars>>
       ELSE IF SourceCentres(cfg.height) = {}
       THEN /\ pc' = "raised"
            /\ log' = [log EXCEPT !.err = "randint: low >= high", !.rand = @ + 1]
            /\ UNCHANGED <<heatmap, left, hvars>>
       ELSE \E x \in SourceCentres(cfg.width), y \in SourceCentres(cfg.height),
               intensity \in Intensities :
              /\ HeatSourceCall(heatmap, x, y, Fixed(intensity), SourceSize,
                                cfg.source_sigma)
              /\ heatmap' = AddBuf(heatmap, hret')
              /\ left' = left - 1
              /\ log' = [log EXCEPT !.rand = @ + 3]
              /\ pc' = pc
    /\ UNCHANGED <<cfg, edges_map, out>>
    /\ UNCHANGED <<svars, cvars>>

\* lines 100 and 53: the source loop is over, add_random_edges starts
StartEdges ==
    /\ pc = "sources"
    /\ left = 0
    /\ edges_map' = ZerosLike(heatmap)
    /\ left' = LoopCount(cfg.num_edges)
    /\ log' = [log EXCEPT !.alloc = @ + 1]
    /\ pc' = "edges"
    /\ UNCHANGED <<cfg, heatmap, out>>
    /\ UNCHANGED <<svars, cvars, hvars>>

\* lines 56-62: one iteration of the edge loop
AddRandomEdge ==
    /\ pc = "edges"
    /\ left > 0
    /\ \E rp \in EdgeSamples(heatmap) : \E s \in CcwSorts(ToFix(rp)) :
         \E res \in {BezierCurveOf(s, Rad, 0)} :
           edges_map' = Rasterize(edges_map, res.curve, Fixed(EdgeIntensity))
    /\ left' = left - 1
    /\ log' = [log EXCEPT !.rand = @ + 1,
                          !.sampler = Append(@, [n |-> NumPoints,
                                                 scale |-> EdgeScale(heatmap)])]
    /\ UNCHANGED <<pc, cfg, heatmap, out>>
    /\ UNCHANGED <<svars, cvars, hvars>>

\* line 101: edges = gaussian_filter(edges, sigma=edge_sigma)
BlurEdges ==
    /\ pc = "edges"
    /\ left = 0
    /\ edges_map' = GaussianFilter(edges_map, cfg.edge_sigma)
    /\ pc' = "normalize"
    /\ UNCHANGED <<cfg, heatmap, left, log, out>>
    /\ UNCHANGED <<svars, cvars, hvars>>

\* lines 103-117: the three normalisations, the sum, the quantisation.
\* heatmap.max() of an array without elements raises ValueError.
Normalize ==
    /\ pc = "normalize"
    /\ IF heatmap.h = 0 \/ heatmap.w = 0
       THEN /\ Raise("max: zero-size array")
            /\ UNCHANGED <<heatmap, edges_map, out>>
       ELSE \E hn \in {NormalizeBuf(heatmap)}, en \in {NormalizeBuf(edges_map)} :
              \E combined \in {AddBuf(hn, en)} :
                \E rescaled \in {Rescale(combined)} :
                  /\ heatmap' = hn
                  /\ edges_map' = en
                  /\ out' = Quantize(rescaled)
                  /\ pc' = "returned"
                  /\ UNCHANGED log
    /\ UNCHANGED <<cfg, left>>
    /\ UNCHANGED <<svars, cvars, hvars>>

-----------------------------------------------------------------------------
(* Initial conditions *)

\* scale arguments: the default 0.8, and a canvas-sized one
Scales == {<<4, 5>>, <<2, 1>>}

\* mindst arguments: omitted, 0, 1/2
MinDsts == {None, <<0, 1>>, <<1, 2>>}

SIdle ==
    /\ spc = "idle" /\ n = 0 /\ scale = <<1, 1>> /\ mindst = None /\ rec = 0
    /\ draws = 0 /\ a = <<>> /\ srt = <<>> /\ ret = <<>>

CIdle ==
    /\ cpc = "idle" /\ pts = <<>> /\ edgy = 0 /\ aug = <<>> /\ nseg = 0
    /\ curve = <<>>

HIdle ==
    /\ hpc = "idle" /\ harg = <<>> /\ hin = <<>> /\ heat_source = <<>>
    /\ hret = <<>>

GIdle ==
    /\ pc = "idle" /\ cfg = <<>> /\ heatmap = <<>> /\ edges_map = <<>>
    /\ left = 0 /\ log = <<>> /\ out = <<>>

\* a call get_random_points(n, scale, mindst) with rec left at its default 0
InitSampler ==
    /\ spc = "call"
    /\ n = NumPoints
    /\ scale \in Scales
    /\ mindst \in MinDsts
    /\ rec = 0
    /\ draws = 0
    /\ a = <<>> /\ srt = <<>> /\ ret = <<>>
    /\ CIdle /\ HIdle /\ GIdle

\* scale of the point sets handed to get_bezier_curve directly
CurveScale == <<7, 1>>

\* edgy arguments
Edgies == {-1, 0, 1}

\* a call get_bezier_curve(a, edgy=edgy), a being a scaled draw of three or of
\* four points
InitCurve ==
    /\ cpc = "call"
    /\ pts \in { ToFix(ScalePoints(a0, CurveScale)) :
                    a0 \in Draws(NumPoints) \cup
                           { s \in Draws(NumPoints + 1) :
                               /\ s[1] = <<0, 0>>
                               /\ s[2] = <<GridRes - 1, GridRes - 1>> } }
    /\ edgy \in Edgies
    /\ aug = <<>> /\ nseg = 0 /\ curve = <<>>
    /\ SIdle /\ HIdle /\ GIdle

NextCurve == GetBezierCurve

SpecCurve == InitCurve /\ [][NextCurve]_vars

\* a call generate_heat_source(heatmap, x, y, intensity, size, spread_sigma) on
\* a canvas that is empty or already holds heat
InitStamp ==
    /\ hpc = "call"
    /\ hin \in { Zeros(StampH, StampW),
                 [Zeros(StampH, StampW) EXCEPT !.rows[1][1] = 9] }
    /\ harg \in [x : 0..(StampW - 1), y : 0..(StampH - 1), intensity : {Fixed(200)},
                 size : 1..MaxSize, sigma : {1}]
    /\ heat_source = <<>> /\ hret = <<>>
    /\ SIdle /\ CIdle /\ GIdle

NextStamp == GenerateHeatSource

SpecStamp == InitStamp /\ [][NextStamp]_vars

\* width and height arguments: negative, zero, tiny, the largest that leaves
\* randint(10, len - 10) no value, the smallest that leaves it one, the largest
Dims == {-1, 0, 1, 2 * Margin, 2 * Margin + 1, MaxDim}

\* num_sources and num_edges arguments
Counts == {-1, 0, 1}

\* edge_sigma and source_sigma arguments
Sigmas == {1}

\* a call generate_thermal_heatmap(width, height, num_sources, num_edges,
\* edge_sigma, source_sigma)
InitHeatmap ==
    /\ pc = "call"
    /\ cfg \in [width : Dims, height : Dims, num_sources : Counts,
                num_edges : Counts, edge_sigma : Sigmas, source_sigma : Sigmas]
    /\ heatmap = <<>> /\ edges_map = <<>> /\ out = <<>>
    /\ left = 0
    /\ log = [alloc |-> 0, rand |-> 0, sampler |-> <<>>, err |-> ""]
    /\ SIdle /\ CIdle /\ HIdle

NextHeatmap ==
    \/ Allocate
    \/ PlaceSource
    \/ StartEdges
    \/ AddRandomEdge
    \/ BlurEdges
    \/ Normalize

SpecHeatmap == InitHeatmap /\ [][NextHeatmap]_vars

NextSampler == GetRandomPoints

SpecSampler == InitSampler /\ [][NextSampler]_vars

-----------------------------------------------------------------------------
(* Claims *)

\* C4 as stated: of every returned point set, sorted counter-clockwise around
\* its centroid, consecutive points are at least mindst apart, unless the retry
\* counter had reached 200.
C4_ReturnedSeparated ==
    spc = "done" =>
        \/ rec >= MaxRec
        \/ \E s \in CcwSorts(ret) : AllFar(s, GridRes * scale[2], mindst)

\* C4 amended: the distance test is passed by the drawn unit-square points,
\* before the multiplication by scale: the returned set is scale times a draw
\* whose ccw-sorted consecutive points are at least mindst apart, unless the
\* retry counter had reached 200.
C4_DrawnSeparated ==
    spc = "done" =>
        /\ srt \in CcwSorts(a)
        /\ ret = ScalePoints(a, scale)
        /\ rec >= MaxRec \/ AllFar(srt, GridRes, mindst)

\* a set accepted after at least one rejected draw, with retries remaining
C4_Witness ==
    /\ spc = "done"
    /\ 0 < rec /\ rec < MaxRec
    /\ AllFar(srt, GridRes, mindst)

\* what holds of the counters of a call in every state
C5_Inv ==
    /\ draws <= MaxRec + 1
    /\ rec <= MaxRec
    /\ spc = "call" => draws = rec
    /\ spc = "done" => draws = rec + 1 /\ Len(ret) = n
    /\ spc = "call" => ENABLED GetRandomPoints

\* what every step of a call does to the counters
C5_Step ==
    /\ (spc = "call" /\ spc' = "call") => (rec' = rec + 1 /\ draws' = draws + 1)
    /\ (spc = "call" /\ rec = MaxRec) => spc' = "done"
    /\ spc = "done" => UNCHANGED svars

\* C5: a call started with rec = 0 makes at most 201 draws: every frame that is
\* due can run, each run is one draw, a rejected draw raises rec by exactly 1,
\* and the frame at rec = 200 returns its draw whatever its distances (so a
\* call that has drawn 201 times has returned, and nothing is raised).
C5_BoundedRetry ==
    /\ []C5_Inv
    /\ [][C5_Step]_vars

\* the budget exhausted with the distance constraint unmet, and a set returned
C5_Witness ==
    /\ spc = "done"
    /\ rec = MaxRec
    /\ draws = MaxRec + 1
    /\ ~ AllFar(srt, GridRes, mindst)

\* C6: the curve of get_bezier_curve is closed: the rows of a are the sorted
\* points followed by the first of them, the last angle is the first blended
\* angle, get_curve builds one segment per point, and the first sample of the
\* concatenated curve equals the last.
C6_ClosedCurve ==
    cpc = "done" =>
        LET len == Len(pts)
        IN  /\ Len(aug) = len + 1
            /\ \E s \in CcwSorts(pts) :
                 \A i \in 1..len : <<aug[i][1], aug[i][2]>> = s[i]
            /\ <<aug[len + 1][1], aug[len + 1][2]>> = <<aug[1][1], aug[1][2]>>
            /\ aug[len + 1][3] = aug[1][3]
            /\ nseg = len
            /\ Len(curve) = len * NumSamples
            /\ curve[1] = curve[Len(curve)]

\* a curve through three or more different points, which leaves its first
\* sample
C6_Witness ==
    /\ cpc = "done"
    /\ Len(pts) >= 3
    /\ \A i, j \in 1..Len(pts) : i # j => pts[i] # pts[j]
    /\ \E i \in 1..Len(curve) : curve[i] # curve[1]

\* the cells of a buffer that are not 0, 0-based <<row, column>>
Filled(buf) ==
    { rc \in (0..(buf.h - 1)) \X (0..(buf.w - 1)) : buf.rows[rc[1] + 1][rc[2] + 1] # 0 }

\* the rows y - size // 2 .. y + size // 2 and columns x - size // 2 ..
\* x + size // 2 of a call
StampRegion(arg) ==
    ((arg.y - arg.size \div 2)..(arg.y + arg.size \div 2))
        \X ((arg.x - arg.size \div 2)..(arg.x + arg.size \div 2))

\* the region of a call lies inside the buffer buf
RegionInside(arg, buf) ==
    StampRegion(arg) \subseteq (0..(buf.h - 1)) \X (0..(buf.w - 1))

\* the stamped buffer of the last call holds the intensity on the region of the
\* call and 0 elsewhere, and the heatmap argument is as it was
StampIsRegion ==
    /\ heat_source.h = hin.h /\ heat_source.w = hin.w
    /\ Filled(heat_source) = StampRegion(harg)
    /\ \A rc \in Filled(heat_source) :
         heat_source.rows[rc[1] + 1][rc[2] + 1] = harg.intensity
    /\ hin \in { Zeros(StampH, StampW),
                 [Zeros(StampH, StampW) EXCEPT !.rows[1][1] = 9] }

C1_ShapeAndRange ==
    IF pc = "returned"
    THEN /\ out.h = cfg.height /\ out.w = cfg.width
         /\ Len(out.rows) = cfg.height
         /\ \A r \in 1..cfg.height :
              /\ Len(out.rows[r]) = cfg.width
              /\ \A c \in 1..cfg.width : out.rows[r][c] \in 0..MaxOut
    ELSE out = <<>>

\* a returned array that is not square and holds values strictly inside the range
C1_Witness ==
    /\ pc = "returned"
    /\ cfg.width # cfg.height
    /\ \E r \in 1..out.h : \E c \in 1..out.w :
         0 < out.rows[r][c] /\ out.rows[r][c] < MaxOut

\* every cell of a buffer is 0
AllZero(buf) == \A r \in 1..buf.h : \A c \in 1..buf.w : buf.rows[r][c] = 0

\* the step of lines 103-117, from the source buffer and the blurred edge
\* buffer to the returned array
C2_Step ==
    (pc = "normalize" /\ pc' = "returned") =>
        /\ (~ AllZero(heatmap) \/ ~ AllZero(edges_map)) => BufMax(out') = MaxOut
        /\ BufMax(out') < MaxOut => (AllZero(heatmap') /\ AllZero(edges_map'))

\* C2: when the source buffer or the blurred edge buffer is not all zero the
\* largest element of the returned array is 255, and it is below 255 only when
\* the sum of the normalised buffers is all zero.
C2_MaxIs255 == [][C2_Step]_vars

\* a returned array built from a source and an edge
C2_Witness ==
    /\ pc = "returned"
    /\ cfg.num_sources > 0 /\ cfg.num_edges > 0
    /\ ~ AllZero(heatmap) /\ ~ AllZero(edges_map)
    /\ BufMax(out) = MaxOut

\* C3: with num_sources = 0 and num_edges = 0 and positive width and height
\* the call never raises and draws nothing, and what it returns is the all-zero
\* array of shape (height, width), the three buffers having been left all zero.
C3_AllZero ==
    (cfg.num_sources = 0 /\ cfg.num_edges = 0 /\ cfg.width > 0 /\ cfg.height > 0) =>
        /\ pc # "raised"
        /\ log.rand = 0
        /\ pc = "returned" =>
             /\ out = Zeros(cfg.height, cfg.width)
             /\ heatmap = Zeros(cfg.height, cfg.width)
             /\ edges_map = Zeros(cfg.height, cfg.width)

\* an all-zero array returned for a canvas that is not square
C3_Witness ==
    /\ pc = "returned"
    /\ cfg.num_sources = 0 /\ cfg.num_edges = 0
    /\ cfg.width > 0 /\ cfg.height > 0 /\ cfg.width # cfg.height
    /\ AllZero(out)

\* C7: a call with width <= 0, height <= 0, num_sources < 0 or num_edges < 0 is
\* rejected at entry: nothing is allocated, nothing is drawn, nothing returned.
C7_RejectsInvalid ==
    (cfg.width <= 0 \/ cfg.height <= 0 \/ cfg.num_sources < 0 \/ cfg.num_edges < 0) =>
        /\ pc \in {"call", "raised"}
        /\ log.alloc = 0
        /\ log.rand = 0
        /\ out = <<>>

\* C8 as stated: every sampler call of add_random_edges has n = num_points and
\* scale = the canvas width.
C8_ScaleIsWidth ==
    \A i \in 1..Len(log.sampler) :
        log.sampler[i].n = NumPoints /\ log.sampler[i].scale = cfg.width

\* C8 amended: every sampler call of add_random_edges has n = num_points and
\* scale = heatmap.shape[0], the number of rows (the canvas height); that is
\* the width only on a square canvas.
C8_ScaleIsHeight ==
    \A i \in 1..Len(log.sampler) :
        log.sampler[i].n = NumPoints /\ log.sampler[i].scale = cfg.height

\* a sampler call on a canvas that is not square
C8_Witness ==
    /\ Len(log.sampler) > 0
    /\ cfg.width # cfg.height
    /\ cfg.width > 0

\* C9: every source generate_thermal_heatmap places has size 5 and a stamp
\* region that lies inside the canvas, at least size cells from every edge,
\* and is filled whole.
C9_SourceInside ==
    hpc = "done" =>
        /\ harg.size = SourceSize
        /\ RegionInside(harg, hin)
        /\ hin.h = cfg.height /\ hin.w = cfg.width
        /\ harg.x - harg.size \div 2 >= harg.size
        /\ harg.y - harg.size \div 2 >= harg.size
        /\ harg.x + harg.size \div 2 <= cfg.width - 1 - harg.size
        /\ harg.y + harg.size \div 2 <= cfg.height - 1 - harg.size
        /\ Filled(heat_source) = StampRegion(harg)
        /\ log.err = ""

\* a source placed on the lowest centre of a canvas that is not square
C9_Witness ==
    /\ hpc = "done"
    /\ pc = "returned"
    /\ cfg.width # cfg.height
    /\ harg.x = Margin
    /\ harg.y = cfg.height - Margin - 1

=============================================================================
